---------------------------- MODULE Spec2Model ----------------------------
(***************************************************************************)
(* Model of processing/loaddata.py: the field mappers (fmt_journal,        *)
(* fmt_document), the derived metric acceptancedelta, the change-event     *)
(* generator documents() and the sync driver run().                        *)
(*                                                                         *)
(* Python values are represented as follows.                               *)
(*   str        a sequence of one-character strings, so that slicing,      *)
(*              joining and parsing are computed and not assumed;          *)
(*   None       the record None below where a dict or an object is         *)
(*              expected, and the sequence NoText where a str is expected  *)
(*              (no str is a sequence holding a longer string);            *)
(*   dict       a function from key names to values;                       *)
(*   int|None   (the result of acceptancedelta) a sequence of at most one  *)
(*              integer: << >> is None and <<n>> is the integer n.         *)
(***************************************************************************)
EXTENDS Integers, Sequences, FiniteSets, TLC

VARIABLES
    doc_type,      \* run's argument doc_type
    identifiers,   \* run's argument identifiers
    endpoint,      \* run's local endpoint (it also selects fmt)
    pc,            \* where run / the generator documents() stands
    index,         \* the search index's content for doc_type: id -> body
    index0,        \* the index's content when run was called
    itens,         \* the items the source iterator has handed out so far
    yielded,       \* the event the generator yielded and run has not applied
    emitted,       \* every event the generator has yielded, in order
    calls,         \* every call made to an external system, in order
    cause,         \* the exception (or exit) that ended the run
    record,        \* the source record handed to a field mapper
    data           \* the document the field mapper returned

vars == <<doc_type, identifiers, endpoint, pc, index, index0, itens,
          yielded, emitted, calls, cause, record, data>>

runVars == <<doc_type, identifiers, endpoint, pc, index, index0, itens,
             yielded, emitted, calls, cause>>

mapVars == <<record, data>>

-----------------------------------------------------------------------------
(* Bounds of the model *)

\* the largest number of items the source iterator hands out in one run
MaxItems == 2

-----------------------------------------------------------------------------
(* Python values *)

None == [none |-> TRUE]

NoText == <<"None">>

EmptyDict == << >>

Digits == {"0", "1", "2", "3", "4", "5", "6", "7", "8", "9"}

NonZeroDigits == Digits \ {"0"}

DigitVal(c) ==
    CASE c = "0" -> 0 [] c = "1" -> 1 [] c = "2" -> 2 [] c = "3" -> 3
      [] c = "4" -> 4 [] c = "5" -> 5 [] c = "6" -> 6 [] c = "7" -> 7
      [] c = "8" -> 8 [] c = "9" -> 9 [] OTHER -> 0

\* int(t) for a text of digits, a leading blank allowed
RECURSIVE IntOf(_)
IntOf(t) ==
    IF t = << >> THEN 0
    ELSE IntOf(SubSeq(t, 1, Len(t) - 1)) * 10 + DigitVal(t[Len(t)])

\* s[0:n]
Slice(s, n) == SubSeq(s, 1, IF Len(s) < n THEN Len(s) ELSE n)

\* '_'.join([a, b])
Join(a, b) == a \o <<"_">> \o b

\* x or default, for a dict or None
OrElse(x, default) == IF x = None \/ x = EmptyDict THEN default ELSE x

\* x or default, for a str or None
TextOr(x, default) == IF x = NoText \/ x = << >> THEN default ELSE x

\* dict.get(key) of a dict of str values: None when the key is missing
DictGet(d, key) == IF key \in DOMAIN d THEN d[key] ELSE NoText


\* a or b for two str literals: a unless it is empty
StrOr(a, b) == IF a # "" THEN a ELSE b

\* the truth value of an int|None
Truthy(v) == v # << >> /\ v[1] # 0

Undefined == <<"u", "n", "d", "e", "f", "i", "n", "e", "d">>

-----------------------------------------------------------------------------
(* datetime.strptime(text, '%Y-%m-%d') and the difference of two dates *)

IsLeap(y) == y % 4 = 0 /\ (y % 100 # 0 \/ y % 400 = 0)

DaysInMonth(y, m) ==
    IF m = 2 THEN (IF IsLeap(y) THEN 29 ELSE 28)
    ELSE IF m \in {4, 6, 9, 11} THEN 30 ELSE 31

RECURSIVE DaysBeforeMonth(_, _)
DaysBeforeMonth(y, m) ==
    IF m <= 1 THEN 0 ELSE DaysBeforeMonth(y, m - 1) + DaysInMonth(y, m - 1)

DaysBeforeYear(y) ==
    LET p == y - 1 IN p * 365 + (p \div 4) - (p \div 100) + (p \div 400)

\* date.toordinal(): the number of the day, 0001-01-01 being day 1
Ordinal(d) == DaysBeforeYear(d.year) + DaysBeforeMonth(d.year, d.month) + d.day

\* the directive %m: 1[0-2]|0[1-9]|[1-9]
MonthText(t) ==
    \/ Len(t) = 1 /\ t[1] \in NonZeroDigits
    \/ Len(t) = 2 /\ t[1] = "1" /\ t[2] \in {"0", "1", "2"}
    \/ Len(t) = 2 /\ t[1] = "0" /\ t[2] \in NonZeroDigits

\* the directive %d: 3[0-1]|[1-2]\d|0[1-9]|[1-9]| [1-9]
DayText(t) ==
    \/ Len(t) = 1 /\ t[1] \in NonZeroDigits
    \/ Len(t) = 2 /\ t[1] = "3" /\ t[2] \in {"0", "1"}
    \/ Len(t) = 2 /\ t[1] \in {"1", "2"} /\ t[2] \in Digits
    \/ Len(t) = 2 /\ t[1] \in {"0", " "} /\ t[2] \in NonZeroDigits

\* The date strptime returns, or None where it raises (TypeError for a value
\* that is no str, ValueError for a text that does not match the format, has
\* text left over, or names no day of the calendar).
Strptime(text) ==
    IF text = NoText THEN None
    ELSE IF Len(text) < 8 THEN None
    ELSE IF ~(\A i \in 1..4 : text[i] \in Digits) \/ text[5] # "-" THEN None
    ELSE LET mlen == IF text[7] = "-" THEN 1 ELSE 2
             mtxt == SubSeq(text, 6, 5 + mlen)
             dtxt == SubSeq(text, 7 + mlen, Len(text))
         IN  IF text[6 + mlen] # "-" \/ ~MonthText(mtxt) \/ ~DayText(dtxt)
             THEN None
             ELSE LET y == IntOf(SubSeq(text, 1, 4))
                      m == IntOf(mtxt)
                      d == IntOf(dtxt)
                  IN  IF y < 1 \/ d > DaysInMonth(y, m) THEN None
                      ELSE [year |-> y, month |-> m, day |-> d]

\* acceptancedelta(received, accepted): an int|None
acceptancedelta(received, accepted) ==
    LET rec == Strptime(received) IN
    IF rec = None THEN << >>
    ELSE LET acc == Strptime(accepted) IN
         IF acc = None THEN << >>
         ELSE LET days == Ordinal(acc) - Ordinal(rec) IN
              IF days >= 0 THEN <<days>> ELSE << >>

-----------------------------------------------------------------------------
(* The field mappers.  Of the keys a mapper copies from the record unchanged,  *)
(* the model keeps those that identify the document; the computed keys id,     *)
(* issue, included_at_year, license and acceptance_delta are all modelled.     *)

\* the length of the issue prefix of a publisher id
IssuePrefixLen == 18

\* the length of the year prefix of a date
YearLen == 4

\* the value stored under 'license'
license(permissions) ==
    LET permission == OrElse(permissions, [id |-> Undefined])
    IN  DictGet(permission, StrOr("id", "undefined"))

fmt_journal(document) ==
    [id               |-> Join(document.collection_acronym, document.scielo_issn),
     issn             |-> document.scielo_issn,
     collection       |-> document.collection_acronym,
     included_at_year |-> Slice(document.creation_date, YearLen),
     status           |-> document.current_status,
     license          |-> license(document.permissions)]

\* the key acceptance_delta is stored when delta is true
StoresDelta(delta) == Truthy(delta)

fmt_document(document) ==
    LET base ==
            [id         |-> Join(document.collection_acronym, document.publisher_id),
             pid        |-> document.publisher_id,
             issue      |-> Join(document.collection_acronym,
                                 Slice(document.publisher_id, IssuePrefixLen)),
             collection |-> document.collection_acronym,
             license    |-> license(document.permissions)]
        delta == acceptancedelta(document.receive_date, document.acceptance_date)
    IN  IF StoresDelta(delta)
        THEN base @@ ("acceptance_delta" :> delta[1])
        ELSE base

-----------------------------------------------------------------------------
(* The source records the model draws from *)

DigitChar(n) ==
    CASE n = 0 -> "0" [] n = 1 -> "1" [] n = 2 -> "2" [] n = 3 -> "3"
      [] n = 4 -> "4" [] n = 5 -> "5" [] n = 6 -> "6" [] n = 7 -> "7"
      [] n = 8 -> "8" [] n = 9 -> "9"

\* the text YYYY-MM-DD of three numbers
Iso(y, m, d) ==
    << DigitChar(y \div 1000), DigitChar((y \div 100) % 10),
       DigitChar((y \div 10) % 10), DigitChar(y % 10), "-",
       DigitChar(m \div 10), DigitChar(m % 10), "-",
       DigitChar(d \div 10), DigitChar(d % 10) >>

Scl == <<"s", "c", "l">>

Pid1 == <<"S", "1">>

Pid2 == <<"S", "0", "0", "3", "4", "-", "8", "9", "1", "0", "2", "0", "1", "0",
          "0", "0", "0", "1", "0", "0", "0", "0", "2">>

Issn1 == <<"0", "0", "0", "1", "-", "0", "0", "0", "1">>

Issn2 == <<"0", "0", "3", "4", "-", "8", "9", "1", "0">>

By == <<"b", "y">>

Url == <<"h", "t", "t", "p">>

Current == <<"c", "u", "r", "r", "e", "n", "t">>

\* the values of a record's permissions: absent, an empty block, and blocks
\* with and without the entry 'id'
PermissionValues ==
    { None, EmptyDict, [id |-> By], [url |-> Url], [id |-> By, url |-> Url] }

\* the values of a record's receive_date and acceptance_date
DateValues ==
    { NoText, << >>, <<"b", "a", "d">>,
      Iso(2019, 12, 31), Iso(2020, 1, 1), Iso(2020, 1, 10), Iso(2020, 2, 29),
      Iso(2020, 3, 1), Iso(2021, 2, 29), Iso(2020, 13, 1), Iso(0, 1, 1),
      <<"2", "0", "2", "0", "/", "0", "1", "/", "0", "1">>,
      Iso(2020, 1, 1) \o <<"x">> }

ArticleRecords ==
    [collection_acronym : {Scl}, publisher_id : {Pid1, Pid2},
     permissions : PermissionValues,
     receive_date : DateValues, acceptance_date : DateValues]

JournalRecords ==
    [collection_acronym : {Scl}, scielo_issn : {Issn1, Issn2},
     creation_date : {Iso(2015, 6, 1), Iso(1998, 12, 31)},
     current_status : {Current},
     permissions : PermissionValues]

-----------------------------------------------------------------------------
(* The field mappers applied to one record *)

RunIdle ==
    /\ doc_type = "article" /\ identifiers = FALSE /\ endpoint = "unset"
    /\ pc = "idle" /\ index = << >> /\ index0 = << >> /\ itens = << >>
    /\ yielded = None /\ emitted = << >> /\ calls = << >> /\ cause = "none"

InitMap ==
    /\ RunIdle
    /\ record \in ArticleRecords \cup JournalRecords
    /\ data = None

MapJournal ==
    /\ data = None
    /\ record \in JournalRecords
    /\ data' = fmt_journal(record)
    /\ UNCHANGED <<record, runVars>>

MapArticle ==
    /\ data = None
    /\ record \in ArticleRecords
    /\ data' = fmt_document(record)
    /\ UNCHANGED <<record, runVars>>

NextMap == MapJournal \/ MapArticle

SpecMap == InitMap /\ [][NextMap]_vars

-----------------------------------------------------------------------------
(* The metadata source and the search index, as run() meets them *)

allowed_endpoints == {"journal", "article"}

\* values of doc_type that name no endpoint
OtherTypes == {"citation", "issue"}

A1 == [collection_acronym |-> Scl, publisher_id |-> Pid1, permissions |-> None,
       receive_date |-> Iso(2020, 1, 1), acceptance_date |-> Iso(2020, 1, 10)]

A1b == [A1 EXCEPT !.permissions = [id |-> By]]

A2 == [A1 EXCEPT !.publisher_id = Pid2]

J1 == [collection_acronym |-> Scl, scielo_issn |-> Issn1,
       creation_date |-> Iso(2015, 6, 1), current_status |-> Current,
       permissions |-> None]

J1b == [J1 EXCEPT !.permissions = [id |-> By]]

J2 == [J1 EXCEPT !.scielo_issn = Issn2]

\* the full records the source serves for an endpoint
Records(ep) == IF ep = "journal" THEN {J1, J1b, J2} ELSE {A1, A1b, A2}

\* the values of a history entry's code: a str or None for an article, a list
\* of str for a journal
Codes(ep) ==
    IF ep = "journal" THEN { << >>, << << >> >>, <<Issn1>>, <<Issn2>> }
    ELSE { NoText, << >>, Pid1, Pid2 }

\* the history entries the source serves for an endpoint
Histories(ep) ==
    [event : {"delete"}, collection : {Scl}, code : Codes(ep)]
        \cup { [event |-> "add", collection |-> Scl,
                code |-> IF ep = "journal" THEN <<Issn1>> ELSE Pid1] }

\* what the iterator itens hands out: a full record in identifiers mode, a
\* pair (history entry, full record or None) in history mode
SourceItems(ep, ids) ==
    IF ids THEN Records(ep)
    ELSE Histories(ep) \X ({None} \cup Records(ep))

\* fmt, as run() selects it for the endpoint
fmt(ep, document) ==
    IF ep = "journal" THEN fmt_journal(document) ELSE fmt_document(document)

\* the index's content before the run: empty, or one document of the type
InitialIndexes(dt) ==
    IF dt \in allowed_endpoints
    THEN LET old == fmt(dt, IF dt = "journal" THEN J1 ELSE A1)
         IN  { << >>, old.id :> old }
    ELSE { << >> }

Call(op, id, body, result) ==
    [op |-> op, id |-> id, body |-> body, result |-> result]

\* the index without the document at id
Remove(ix, id) == [k \in DOMAIN ix \ {id} |-> ix[k]]

\* the index with body stored at id
Put(ix, id, body) == [k \in DOMAIN ix \cup {id} |-> IF k = id THEN body ELSE ix[k]]

-----------------------------------------------------------------------------
(* run(doc_type, from_date, identifiers) *)

Init ==
    /\ doc_type \in allowed_endpoints \cup OtherTypes
    /\ identifiers \in BOOLEAN
    /\ endpoint = "unset"
    /\ pc = "create"
    /\ index0 \in InitialIndexes(doc_type)
    /\ index = index0
    /\ itens = << >>
    /\ yielded = None
    /\ emitted = << >>
    /\ calls = << >>
    /\ cause = "none"
    /\ record = None
    /\ data = None

\* the item the generator is working on
item == itens[Len(itens)]

\* ES.indices.create(...) inside try / except: whatever the index answers,
\* run goes on
CreateIndex ==
    /\ pc = "create"
    /\ \E result \in {"ok", "error"} :
           calls' = Append(calls, Call("create", << >>, None, result))
    /\ pc' = "select"
    /\ UNCHANGED <<doc_type, identifiers, endpoint, index, index0, itens,
                   yielded, emitted, cause, mapVars>>

\* if doc_type == 'journal' ... elif doc_type == 'article' ...
SelectEndpoint ==
    /\ pc = "select"
    /\ doc_type \in allowed_endpoints
    /\ endpoint' = doc_type
    /\ pc' = "documents"
    /\ UNCHANGED <<doc_type, identifiers, index, index0, itens, yielded,
                   emitted, calls, cause, mapVars>>

\* else: logger.error('Invalid doc_type'); exit()
InvalidDocType ==
    /\ pc = "select"
    /\ doc_type \notin allowed_endpoints
    /\ pc' = "exited"
    /\ cause' = "SystemExit"
    /\ UNCHANGED <<doc_type, identifiers, endpoint, index, index0, itens,
                   yielded, emitted, calls, mapVars>>

\* The generator's first step: the endpoint check, then the listing call that
\* gives the iterator itens.
Documents ==
    /\ pc = "documents"
    /\ IF endpoint \notin allowed_endpoints
       THEN /\ pc' = "aborted"
            /\ cause' = "TypeError"
            /\ calls' = calls
       ELSE /\ pc' = "for_item"
            /\ cause' = cause
            /\ calls' = Append(calls, Call("list", << >>, None, "ok"))
    /\ UNCHANGED <<doc_type, identifiers, endpoint, index, index0, itens,
                   yielded, emitted, mapVars>>

\* the code of a delete entry: history.code or '' for an article,
\* history.code[0] or '' for a journal (IndexError on an empty list)
CodeRaises(ep, history) == ep = "journal" /\ history.code = << >>

ResolvedCode(ep, history) ==
    IF ep = "journal" THEN TextOr(history.code[1], << >>)
    ELSE TextOr(history.code, << >>)

\* delete_params, as it stands at the yield
delete_params(ep, history) ==
    LET code == ResolvedCode(ep, history) IN
    IF ep = "journal"
    THEN [collection |-> history.collection, issn |-> code,
          id |-> Join(history.collection, code)]
    ELSE [collection |-> history.collection, code |-> code,
          id |-> Join(history.collection, code)]

\* where the generator goes with a delete entry whose code is empty
OnEmptyCode == "for_item"

\* for item in itens: the next item, taken to the generator's next stop
NextItem ==
    /\ pc = "for_item"
    /\ Len(itens) < MaxItems
    /\ \E it \in SourceItems(endpoint, identifiers) :
         /\ itens' = Append(itens, it)
         /\ IF identifiers \/ it[1].event # "delete"
            THEN pc' = "yield_add" /\ cause' = cause
            ELSE IF CodeRaises(endpoint, it[1])
            THEN pc' = "aborted" /\ cause' = "IndexError"
            ELSE IF ResolvedCode(endpoint, it[1]) = << >>
            THEN pc' = OnEmptyCode /\ cause' = cause
            ELSE pc' = "set_trace" /\ cause' = cause
    /\ UNCHANGED <<doc_type, identifiers, endpoint, index, index0, yielded,
                   emitted, calls, mapVars>>

\* the iterator is exhausted: the generator returns and run's loop ends
Exhausted ==
    /\ pc = "for_item"
    /\ pc' = "done"
    /\ UNCHANGED <<doc_type, identifiers, endpoint, index, index0, itens,
                   yielded, emitted, calls, cause, mapVars>>

Emit(ev) == Append(emitted, [event |-> ev.event, document |-> ev.document,
                             n |-> Len(itens)])

\* import pdb; pdb.set_trace() before the yield of a delete event: the
\* debugger stops the process and reads a command; on 'continue' the event
\* is yielded, on 'quit' or the end of its input BdbQuit is raised
SetTrace ==
    /\ pc = "set_trace"
    /\ \/ LET ev == [event |-> "delete",
                     document |-> delete_params(endpoint, item[1])]
          IN  /\ yielded' = ev
              /\ emitted' = Emit(ev)
              /\ pc' = "apply"
              /\ cause' = cause
       \/ /\ pc' = "aborted"
          /\ cause' = "BdbQuit"
          /\ UNCHANGED <<yielded, emitted>>
    /\ UNCHANGED <<doc_type, identifiers, endpoint, index, index0, itens,
                   calls, mapVars>>

\* a loop that takes no event for a delete
IsDeleteNever(ev) == FALSE

\* a loop that takes the events the other way round
IsDeleteInverted(ev) == ev.event # "delete"

\* if event == 'delete':
IsDelete(ev) == ev.event = "delete"

\* an upsert keyed by the document's collection
IndexIdIsCollection(document) == document.collection

\* id=document['id'], the id that ES.index is given
IndexId(document) == document.id

\* what ES.delete can answer for an id
DeleteResults(id) ==
    (IF id \in DOMAIN index THEN {"ok"} ELSE {"NotFoundError"}) \cup {"error"}

\* a loop that catches NotFoundError alone
AfterDeleteUncaught(result) ==
    IF result = "error" THEN "aborted" ELSE "yield_add"

\* where run goes after ES.delete: both except clauses only log
AfterDelete(result) == "yield_add"

\* if event == 'delete': ES.delete(...) inside try / except
ApplyDelete ==
    /\ pc = "apply"
    /\ IsDelete(yielded)
    /\ \E result \in DeleteResults(yielded.document.id) :
         /\ calls' = Append(calls, Call("delete", yielded.document.id, None, result))
         /\ index' = IF result = "ok" THEN Remove(index, yielded.document.id)
                     ELSE index
         /\ pc' = AfterDelete(result)
         /\ cause' = IF AfterDelete(result) = "aborted" THEN result ELSE cause
    /\ yielded' = None
    /\ UNCHANGED <<doc_type, identifiers, endpoint, index0, itens, emitted,
                   mapVars>>

\* doc_ret = item[1] (history mode) or item (identifiers mode)
doc_ret == IF identifiers THEN item ELSE item[2]

\* yield ('add', fmt(doc_ret)): fmt reads attributes of doc_ret, which
\* raises AttributeError when doc_ret is None
YieldAdd ==
    /\ pc = "yield_add"
    /\ IF doc_ret = None
       THEN /\ pc' = "aborted"
            /\ cause' = "AttributeError"
            /\ UNCHANGED <<yielded, emitted>>
       ELSE LET ev == [event |-> "add", document |-> fmt(endpoint, doc_ret)]
            IN  /\ yielded' = ev
                /\ emitted' = Emit(ev)
                /\ pc' = "apply"
                /\ cause' = cause
    /\ UNCHANGED <<doc_type, identifiers, endpoint, index, index0, itens,
                   calls, mapVars>>

\* a loop that logs the error of an upsert and goes on
AfterIndexSwallowed(result) == "for_item"

\* where run goes after ES.index: a result other than "ok" is an exception
\* nothing catches
AfterIndex(result) == IF result = "ok" THEN "for_item" ELSE "aborted"

\* else: ES.index(index='publication', doc_type=doc_type, id=..., body=document)
ApplyAdd ==
    /\ pc = "apply"
    /\ ~IsDelete(yielded)
    /\ \E result \in {"ok", "error"} :
         /\ calls' = Append(calls, Call("index", IndexId(yielded.document),
                                        yielded.document, result))
         /\ index' = IF result = "ok"
                     THEN Put(index, IndexId(yielded.document), yielded.document)
                     ELSE index
         /\ pc' = AfterIndex(result)
         /\ cause' = IF AfterIndex(result) = "aborted" THEN "index " \o result
                     ELSE cause
    /\ yielded' = None
    /\ UNCHANGED <<doc_type, identifiers, endpoint, index0, itens, emitted,
                   mapVars>>

Next ==
    \/ CreateIndex
    \/ SelectEndpoint
    \/ InvalidDocType
    \/ Documents
    \/ NextItem
    \/ Exhausted
    \/ SetTrace
    \/ ApplyDelete
    \/ YieldAdd
    \/ ApplyAdd

Spec == Init /\ [][Next]_vars

-----------------------------------------------------------------------------
(* Properties *)

\* the calls that write to the index, in the order run() made them
IndexOps == SelectSeq(calls, LAMBDA c : c.op \in {"delete", "index"})

\* the events the generator yielded for the n-th item of the source
EventsOf(n) == SelectSeq(emitted, LAMBDA e : e.n = n)

DeletesOf(n) == SelectSeq(EventsOf(n), LAMBDA e : e.event = "delete")

AddsOf(n) == SelectSeq(EventsOf(n), LAMBDA e : e.event = "add")

\* the generator has left the n-th item behind, or the run has ended
Finished(n) ==
    n < Len(itens) \/ pc \in {"for_item", "done", "aborted", "exited"}

\* the history entry of the n-th item is a delete entry with a resolved code
DeleteEntry(n) ==
    /\ itens[n][1].event = "delete"
    /\ ~CodeRaises(endpoint, itens[n][1])

\* the generator skipped the n-th item: a delete entry whose code is empty
Skipped(n) ==
    DeleteEntry(n) /\ ResolvedCode(endpoint, itens[n][1]) = << >>

\* C1: with a doc_type other than 'journal' and 'article', run stops before
\* any call to an external system (index create / upsert / delete, source
\* listing) is made.
C1_NoCallBeforeExit == pc = "exited" => calls = << >>

\* C2: in history mode a delete entry with an empty resolved code yields no
\* event at all, and one with a non-empty code yields exactly one delete
\* event, whose id is collection + '_' + code.
C2_DeleteEntryEvents ==
    ~identifiers =>
        \A n \in 1..Len(itens) :
            (Finished(n) /\ DeleteEntry(n)) =>
                LET history == itens[n][1]
                    code == ResolvedCode(endpoint, history)
                IN  IF code = << >>
                    THEN EventsOf(n) = << >>
                    ELSE /\ Len(DeletesOf(n)) = 1
                         /\ DeletesOf(n)[1].document.id
                                = history.collection \o <<"_">> \o code

\* the events at positions i < j are a delete and the last add of one id,
\* with no delete of that id after the add
DeleteThenAdd(i, j) ==
    /\ i < j
    /\ emitted[i].event = "delete"
    /\ emitted[j].event = "add"
    /\ emitted[j].document.id = emitted[i].document.id
    /\ \A k \in (j + 1)..Len(emitted) :
           emitted[k].document.id # emitted[j].document.id

\* C3: when the stream holds a delete of id X and later an add of X (and no
\* later delete of X), the index holds the added document at X once the run
\* has completed, whatever the delete's outcome and the index's first content.
C3_DeleteThenAddWins ==
    pc = "done" =>
        \A i, j \in 1..Len(emitted) :
            DeleteThenAdd(i, j) =>
                LET x == emitted[j].document.id
                IN  x \in DOMAIN index /\ index[x] = emitted[j].document

\* a completed run in which the delete of a document present at first
\* failed with an error other than not-found and a different document was
\* then added at the same id
C3_Witness ==
    /\ pc = "done"
    /\ \E i, j \in 1..Len(emitted) :
           /\ DeleteThenAdd(i, j)
           /\ IndexOps[i].result = "error"
           /\ emitted[j].document.id \in DOMAIN index0
           /\ index0[emitted[j].document.id] # emitted[j].document
           /\ index[emitted[j].document.id] = emitted[j].document

\* the step is run's handling of a delete event that the index refused
FailedDeleteStep ==
    /\ pc = "apply"
    /\ IsDelete(yielded)
    /\ Len(calls') = Len(calls) + 1
    /\ calls'[Len(calls')].result # "ok"

\* C4: a delete that fails, with not-found or with any other error, leaves
\* the index as it was and does not end the run: the loop goes on to ask the
\* generator for the next event.
C4_FailedDeleteGoesOn ==
    [][FailedDeleteStep =>
          /\ index' = index
          /\ pc' = "yield_add"
          /\ cause' = cause]_vars

\* after a delete that failed with another error than not-found, an event of
\* a later source item was fetched and applied
C4_Witness ==
    \E i, j \in 1..Len(IndexOps) :
        /\ i < j
        /\ IndexOps[i].op = "delete"
        /\ IndexOps[i].result = "error"
        /\ IndexOps[j].result = "ok"
        /\ emitted[i].n < emitted[j].n

\* C5: an error of the index on the upsert of an add event ends the run: the
\* failed upsert is the last write the index is asked for (no retry, no later
\* event applied), no event is yielded and no source item is fetched after it.
C5_UpsertErrorEndsRun ==
    \A i \in 1..Len(IndexOps) :
        (IndexOps[i].op = "index" /\ IndexOps[i].result # "ok") =>
            /\ i = Len(IndexOps)
            /\ pc = "aborted"
            /\ yielded = None
            /\ Len(emitted) = i
            /\ emitted[i].n = Len(itens)

\* the run ended on a failed upsert while the source could still hand out
\* items, after an earlier event had been applied
C5_Witness ==
    /\ pc = "aborted"
    /\ cause = "index error"
    /\ Len(itens) < MaxItems
    /\ Len(IndexOps) > 1
    /\ IndexOps[Len(IndexOps)].result = "error"

\* C6: the writes the index is asked for are the events the generator
\* yielded, in the same order; at most one event is ever waiting to be
\* applied, and a source item is fetched only when every event of the items
\* before it (the delete and the add of one history entry included) has been
\* applied.
C6_SerialInOrder ==
    LET ops == IndexOps IN
    /\ Len(ops) <= Len(emitted)
    /\ Len(emitted) <= Len(ops) + 1
    /\ Len(emitted) = Len(ops) + 1 => pc = "apply" /\ yielded # None
    /\ \A i \in 1..Len(ops) :
           /\ ops[i].op = (IF emitted[i].event = "delete" THEN "delete" ELSE "index")
           /\ ops[i].id = emitted[i].document.id
           /\ emitted[i].event = "add" => ops[i].body = emitted[i].document
    /\ \A i \in 1..Len(emitted) : emitted[i].n < Len(itens) => i <= Len(ops)
    /\ \A i, j \in 1..Len(emitted) :
           i < j => /\ emitted[i].n <= emitted[j].n
                    /\ emitted[i].n = emitted[j].n =>
                           emitted[i].event = "delete" /\ emitted[j].event = "add"

\* a history entry gave a delete and an add, both applied, before a second
\* item was fetched and its event applied
C6_Witness ==
    /\ Len(IndexOps) >= 3
    /\ emitted[1].n = 1 /\ emitted[1].event = "delete"
    /\ emitted[2].n = 1 /\ emitted[2].event = "add"
    /\ emitted[3].n = 2
    /\ IndexOps[3].result = "ok"

\* the generator reached the add step of the n-th item
ReachedAdd(n) ==
    /\ ~Skipped(n)
    /\ ~CodeRaises(endpoint, itens[n][1])
    /\ ~(n = Len(itens) /\ pc = "set_trace")
    /\ ~(n = Len(itens) /\ pc = "apply" /\ yielded.event = "delete")
    /\ ~(n = Len(itens) /\ pc = "yield_add")
    /\ ~(n = Len(itens) /\ pc = "aborted" /\ cause = "BdbQuit")

\* C9: in history mode an entry that is not skipped yields an add event
\* exactly when a record accompanies it; an entry whose record is None
\* yields no add event and raises no error, and the stream goes on.
C9_AddIffRecord ==
    ~identifiers =>
        \A n \in 1..Len(itens) :
            ReachedAdd(n) =>
                /\ (AddsOf(n) # << >>) <=> (itens[n][2] # None)
                /\ itens[n][2] = None =>
                       ~(n = Len(itens) /\ pc = "aborted")

\* C10: in identifiers mode the i-th event is the add of the i-th record's
\* mapping, one event per record the source handed out; no delete is ever
\* asked of the index, and no document the index held is removed.
C10_IdentifiersOnlyAdd ==
    identifiers =>
        /\ \A i \in 1..Len(emitted) :
               /\ emitted[i].event = "add"
               /\ emitted[i].n = i
               /\ emitted[i].document = fmt(endpoint, itens[i])
        /\ Len(emitted) \in {Len(itens) - 1, Len(itens)}
        /\ pc \in {"for_item", "apply", "done"} => Len(emitted) = Len(itens)
        /\ \A i \in 1..Len(calls) : calls[i].op # "delete"
        /\ DOMAIN index0 \subseteq DOMAIN index

\* a completed run in identifiers mode over as many records as the source
\* may hand out, two of them mapped to the same id, over a non-empty index
C10_Witness ==
    /\ identifiers
    /\ pc = "done"
    /\ Len(itens) >= 2
    /\ Len(emitted) = Len(itens)
    /\ emitted[1].document.id = emitted[2].document.id
    /\ emitted[1].document # emitted[2].document
    /\ index0 # << >>
    /\ index[emitted[2].document.id] = emitted[2].document

\* C7: an article's document has the key acceptance_delta exactly when both
\* dates parse and accepted - received is >= 0 days (0 included), and the
\* value is then that number of days.
C7_DeltaKey ==
    (data # None /\ "publisher_id" \in DOMAIN record) =>
        LET rec == Strptime(record.receive_date)
            acc == Strptime(record.acceptance_date)
            computable == /\ rec # None
                          /\ acc # None
                          /\ Ordinal(acc) - Ordinal(rec) >= 0
        IN  /\ ("acceptance_delta" \in DOMAIN data) <=> computable
            /\ computable =>
                   data["acceptance_delta"] = Ordinal(acc) - Ordinal(rec)

\* C8: every document a mapper returns has a license that is not None:
\* 'undefined' when the record has no permission block, the block's license
\* identifier otherwise.
C8_LicensePopulated ==
    data # None =>
        /\ data.license # NoText
        /\ record.permissions = None => data.license = Undefined

=============================================================================
